---- MODULE Spec2Model ----
(***************************************************************************)
(* Model of ibllib.ephys.sync_probes: one synchronization run of a session *)
(* (sync -> version3A | version3B -> sync_probe_front_times ->             *)
(* _save_timestamps_npy).                                                  *)
(*                                                                         *)
(* float64 values are modelled as exact rationals <<num, den>>, den > 0,   *)
(* in lowest terms; floating-point rounding is not modelled.  Times are in *)
(* seconds, sampling rates in Hz, tolerances in samples.  The display      *)
(* argument only drives matplotlib and is left out.  A channel that has    *)
(* edges has two or more of them: np.polyfit of a single point is rank     *)
(* deficient and is not modelled.  The output of dsp.lp, which is not in   *)
(* sync_probes.py, is a choice among SmoothedCurves.                       *)
(*                                                                         *)
(* apply_sync has its own specification, SpecApply: a caller converts      *)
(* times with a saved table one way and the result the other way.          *)
(***************************************************************************)
EXTENDS Integers, Sequences, FiniteSets, TLC

(***************************************************************************)
(* Bounds of the model.                                                    *)
(***************************************************************************)
\* largest number of probes of a session
MaxProbes == 2
\* largest number of edges of one channel of one probe
MaxLen == 3
\* largest number of nidq files of a session
MaxNidq == 2

(***************************************************************************)
(* Exact rational arithmetic standing for float64.                         *)
(***************************************************************************)
RECURSIVE GCD(_, _)
GCD(a, b) == IF b = 0 THEN a ELSE GCD(b, a % b)

Abs(n) == IF n < 0 THEN -n ELSE n

Rat(n, d) ==
    LET s == IF d < 0 THEN -1 ELSE 1
        g == GCD(Abs(n), Abs(d))
    IN  <<(s * n) \div g, (s * d) \div g>>

RInt(n) == <<n, 1>>
Zero == RInt(0)
One == RInt(1)
\* sums and comparisons go over the least common denominator and products
\* cancel crosswise first, which keeps the intermediate integers small
LCM(a, b) == (a \div GCD(a, b)) * b
RAdd(x, y) ==
    LET l == LCM(x[2], y[2])
    IN  Rat(x[1] * (l \div x[2]) + y[1] * (l \div y[2]), l)
RNeg(x) == <<-x[1], x[2]>>
RSub(x, y) == RAdd(x, RNeg(y))
RMul(x, y) ==
    LET g == GCD(Abs(x[1]), y[2])
        h == GCD(Abs(y[1]), x[2])
    IN  Rat((x[1] \div g) * (y[1] \div h), (x[2] \div h) * (y[2] \div g))
RDiv(x, y) == RMul(x, IF y[1] < 0 THEN <<-y[2], -y[1]>> ELSE <<y[2], y[1]>>)
RAbs(x) == <<Abs(x[1]), x[2]>>
RLt(x, y) ==
    LET l == LCM(x[2], y[2])
    IN  x[1] * (l \div x[2]) < y[1] * (l \div y[2])
RLe(x, y) == ~RLt(y, x)
RGt(x, y) == RLt(y, x)

RECURSIVE RSum(_)
RSum(s) == IF s = <<>> THEN Zero ELSE RAdd(Head(s), RSum(Tail(s)))

RECURSIVE RMin(_)
RMin(s) ==
    IF Len(s) = 1 THEN s[1]
    ELSE LET m == RMin(Tail(s)) IN IF RLt(m, s[1]) THEN m ELSE s[1]

RECURSIVE RMax(_)
RMax(s) ==
    IF Len(s) = 1 THEN s[1]
    ELSE LET m == RMax(Tail(s)) IN IF RGt(m, s[1]) THEN m ELSE s[1]

RECURSIVE IMin(_)
IMin(s) ==
    IF Len(s) = 1 THEN s[1]
    ELSE LET m == IMin(Tail(s)) IN IF m < s[1] THEN m ELSE s[1]

RECURSIVE IMax(_)
IMax(s) ==
    IF Len(s) = 1 THEN s[1]
    ELSE LET m == IMax(Tail(s)) IN IF m > s[1] THEN m ELSE s[1]

\* Python's bool: the values a routine returns are "True", "False" or "None"
PyBool(b) == IF b THEN "True" ELSE "False"
\* no value returned (yet)
NoValue == "-"
\* a file that does not exist
NoFile == <<>>

(***************************************************************************)
(* Inputs of a run: the session's files and the caller's arguments.        *)
(***************************************************************************)
\* seconds between two edges of a channel
Period == RInt(12)
\* the detection error of the last edge of a bent stream, seconds
Bend == RInt(2)
\* first edge of a frame2ttl or imec_sync stream, seconds
FirstEdge == One
\* first camera edges: at the start of the recording, 0.1 s and 1 s after it
CamStarts == {Zero, Rat(1, 10), One}
\* edge counts of a channel that has edges: the longest, and one edge less
Lens == (MaxLen - 1)..MaxLen

\* n strictly increasing edge times; a bent stream has its last edge late, so
\* its edges are not on a line
Stream(start, n, bent) ==
    [i \in 1..n |->
        RAdd(RAdd(start, RMul(RInt(i - 1), Period)),
             IF bent /\ i = n THEN Bend ELSE Zero)]

F2tStreams == {<<>>, Stream(FirstEdge, MaxLen, TRUE)}
                  \cup {Stream(FirstEdge, n, FALSE) : n \in Lens}
CamStreams == {<<>>} \cup {Stream(s, MaxLen, FALSE) : s \in CamStarts}
ImecStreams == F2tStreams \ {<<>>}

\* the _spikeglx_sync object of a 3A probe, by the channel names of its sync map:
\* a name may be missing from the map, or be in it with no edge at all
Syncs3A ==
    {[frame2ttl |-> a, right_camera |-> b] : a \in F2tStreams, b \in CamStreams}
    \cup {[frame2ttl |-> a] : a \in F2tStreams}
    \cup {[right_camera |-> b] : b \in CamStreams}
    \cup {<<>>}
\* the _spikeglx_sync object of a 3B probe or nidq file
Syncs3B == {[imec_sync |-> a] : a \in ImecStreams}
Syncs(v) == IF v = "3A" THEN Syncs3A ELSE Syncs3B

\* the sampling rate in the meta file of the i-th probe, Hz: no two probes of
\* a session run at the same rate
SampleRate(i) == 10 * i

\* spikeglx.glob_ephys_files: the probes in enumeration order, then the nidq
\* files (nnidq files, all with the sync object nidq)
EphysFiles(syncs, nnidq, nidq) ==
    [i \in 1..Len(syncs) |-> [nidq |-> FALSE, fs |-> SampleRate(i), sync |-> syncs[i]]]
    \o [i \in 1..nnidq |-> [nidq |-> TRUE, fs |-> SampleRate(1), sync |-> nidq]]

\* tol=2.1 of version3A and tol=2.5 of version3B
DefaultTol(v) == IF v = "3A" THEN Rat(21, 10) ELSE Rat(5, 2)
\* the caller's arguments: none, linear=True, or linear=True with a loose tol
Arguments(v) ==
    {[linear |-> FALSE, tol |-> DefaultTol(v)],
     [linear |-> TRUE, tol |-> DefaultTol(v)],
     [linear |-> TRUE, tol |-> RInt(20)]}

\* the low-passed residual on the k-th point of the output grid, seconds: flat
\* at zero, or growing by a quarter of a second from a grid point to the next
SmoothedCurves == {"flat", "ramp"}
Smoothed(curve, k) == IF curve = "flat" THEN Zero ELSE Rat(k - 1, 4)

\* len(sync.channels): the edges of all channels of a probe
RECURSIVE TotalLen(_, _)
TotalLen(sync, names) ==
    IF names = {} THEN 0
    ELSE LET c == CHOOSE x \in names : TRUE
         IN  Len(sync[c]) + TotalLen(sync, names \ {c})
NChannels(ef) == TotalLen(ef.sync, DOMAIN ef.sync)

(***************************************************************************)
(* The pure parts of version3A, sync_probe_front_times and                 *)
(* _save_timestamps_npy.                                                   *)
(***************************************************************************)
\* the test of the probe count as "if nprobes < 1"
SingleProbe_Strict(nprobes) == nprobes < 1

\* if nprobes <= 1: nothing to synchronize
SingleProbe(nprobes) == nprobes <= 1

\* the branch on linear as "if linear"
AfterPolyfit_Swapped(lin) == IF lin THEN "smooth" ELSE "line"

\* if not linear: the smoothed fit, else: the line
AfterPolyfit(lin) == IF lin THEN "line" ELSE "smooth"

\* the accumulation as "qc_all = qc"
LastQc(all, q) == q

\* qc_all &= qc
AndQc(all, q) == all /\ q

\* get_sync_fronts returned nothing
None == [ok |-> FALSE, times |-> <<>>, nsync |-> <<>>]

\* SYNC_SAMPLING_RATE_SECS, also the step of the output grid
SYNC_SAMPLING_RATE_SECS == 20
\* the check of the camera edges as "> 0"
CameraMinStart_Zero == Zero

\* the earliest camera edge must be later than 0.2 s
CameraMinStart == Rat(1, 5)
\* the table of the reference probe as [[0, 1], [0, 1]]
Identity_Transposed == <<<<Zero, One>>, <<Zero, One>>>>

\* the table saved for the reference probe
Identity == <<<<Zero, Zero>>, <<One, One>>>>

\* get_sync_fronts that also returns nothing when the probes' edge counts differ
get_sync_fronts_matching(files, auxiliary_name) ==
    IF \/ \E i \in 1..Len(files) :
              \/ auxiliary_name \notin DOMAIN files[i].sync
              \/ files[i].sync[auxiliary_name] = <<>>
       \/ \E i, j \in 1..Len(files) :
              Len(files[i].sync[auxiliary_name]) # Len(files[j].sync[auxiliary_name])
    THEN [ok |-> FALSE, times |-> <<>>, nsync |-> <<>>]
    ELSE [ok |-> TRUE,
          times |-> [i \in 1..Len(files) |-> files[i].sync[auxiliary_name]],
          nsync |-> [i \in 1..Len(files) |-> NChannels(files[i])]]

\* version3A.get_sync_fronts: nothing when the name is missing from a probe's
\* sync map or has no edge on a probe, else every probe's edge times of that
\* channel and every probe's len(sync.channels)
get_sync_fronts(files, auxiliary_name) ==
    IF \E i \in 1..Len(files) :
           \/ auxiliary_name \notin DOMAIN files[i].sync
           \/ files[i].sync[auxiliary_name] = <<>>
    THEN None
    ELSE [ok |-> TRUE,
          times |-> [i \in 1..Len(files) |-> files[i].sync[auxiliary_name]],
          nsync |-> [i \in 1..Len(files) |-> NChannels(files[i])]]

\* [t[0] for t in d['times']]
FirstTimes(times) == [i \in 1..Len(times) |-> times[i][1]]
\* nsyncs = [t.size for t in d['times']]
Sizes(times) == [i \in 1..Len(times) |-> Len(times[i])]
\* the chop that keeps the last min(nsyncs) edges of every stream
Chop_Tail(times) ==
    [i \in 1..Len(times) |->
        SubSeq(times[i], Len(times[i]) - IMin(Sizes(times)) + 1, Len(times[i]))]

\* [t[:min(nsyncs)] for t in d['times']]
Chop(times) ==
    [i \in 1..Len(times) |-> SubSeq(times[i], 1, IMin(Sizes(times)))]

\* np.argmax as the last index of the largest value
ArgMax_Last(a) == CHOOSE i \in 1..Len(a) :
    /\ a[i] = IMax(a)
    /\ \A j \in (i + 1)..Len(a) : a[j] # a[i]

\* np.argmax: the first index of the largest value
ArgMax(a) == CHOOSE i \in 1..Len(a) :
    /\ a[i] = IMax(a)
    /\ \A j \in 1..(i - 1) : a[j] # a[i]

\* np.polyfit(t, tref, 1) of two or more points with distinct t:
\* <<slope, intercept>> of the least-squares line
polyfit(t, tref) ==
    LET n == RInt(Len(t))
        sx == RSum(t)
        sy == RSum(tref)
        sxx == RSum([i \in 1..Len(t) |-> RMul(t[i], t[i])])
        sxy == RSum([i \in 1..Len(t) |-> RMul(t[i], tref[i])])
        slope == RDiv(RSub(RMul(n, sxy), RMul(sx, sy)),
                      RSub(RMul(n, sxx), RMul(sx, sx)))
    IN  <<slope, RDiv(RSub(sy, RMul(slope, sx)), n)>>

\* np.polyval(pol, x)
polyval(pol, x) == RAdd(RMul(pol[1], x), pol[2])

\* np.arange(start, stop, step)
RECURSIVE arange(_, _, _)
arange(start, stop, step) ==
    IF RLt(start, stop) THEN <<start>> \o arange(RAdd(start, step), stop, step)
    ELSE <<>>

\* the output grid that stops before the largest reference time
OutputGrid_ToMax(tref) ==
    arange(Zero, RMax(tref), RInt(SYNC_SAMPLING_RATE_SECS))

\* tout = np.arange(0, np.max(tref) + SYNC_SAMPLING_RATE_SECS, 20)
OutputGrid(tref) ==
    arange(Zero, RAdd(RMax(tref), RInt(SYNC_SAMPLING_RATE_SECS)),
           RInt(SYNC_SAMPLING_RATE_SECS))

\* sync_points of the smoothed fit: the line plus the smoothed residual res
SmoothedPoints(pol, tout, res) ==
    [k \in 1..Len(tout) |-> <<tout[k], RAdd(polyval(pol, tout[k]), res[k])>>]

\* sync_points of the linear fit: the line at 0 and 1
LinearPoints(pol) == <<<<Zero, polyval(pol, Zero)>>, <<One, polyval(pol, One)>>>>

\* interp1d(x, y, fill_value='extrapolate')(q) over the rows <<x, y>> of points
interp1d(points, q) ==
    LET n == Len(points)
        below == {i \in 1..(n - 1) : RLe(points[i][1], q)}
        i == IF below = {} THEN 1 ELSE CHOOSE k \in below : \A j \in below : j <= k
        x0 == points[i][1]
        y0 == points[i][2]
        x1 == points[i + 1][1]
        y1 == points[i + 1][2]
    IN  RAdd(y0, RDiv(RMul(RSub(q, x0), RSub(y1, y0)), RSub(x1, x0)))

\* the test of the error in seconds, not in samples
ExceedsTol_Seconds(points, t, tref, rate, tolerance) ==
    \E i \in 1..Len(t) :
        RGt(RAbs(RSub(tref[i], interp1d(points, t[i]))), tolerance)

\* np.any(np.abs((tref - fcn(t)) * sr) > (tol))
ExceedsTol(points, t, tref, rate, tolerance) ==
    \E i \in 1..Len(t) :
        RGt(RMul(RAbs(RSub(tref[i], interp1d(points, t[i]))), RInt(rate)), tolerance)

\* the timestamps table as a plain copy of the control points
TimestampsTable_Unscaled(tself_tref, rate) == tself_tref

\* timestamps = np.copy(tself_tref); timestamps[:, 0] *= np.float64(sr)
TimestampsTable(tself_tref, rate) ==
    [k \in 1..Len(tself_tref) |->
        <<RMul(tself_tref[k][1], RInt(rate)), tself_tref[k][2]>>]

\* column c of a table of rows <<local time, reference time>>
Column(table, c) == [k \in 1..Len(table) |-> table[k][c]]

\* interp1d sorts its points by x first (assume_sorted=False); the points have
\* distinct x
SortByX(points) ==
    [r \in 1..Len(points) |->
        points[CHOOSE k \in 1..Len(points) :
                   Cardinality({j \in 1..Len(points) :
                                    RLt(points[j][1], points[k][1])}) = r - 1]]

\* apply_sync with the same interpolant in both directions
apply_sync_Forward(sync_points, times, forward) ==
    [j \in 1..Len(times) |-> interp1d(SortByX(sync_points), times[j])]

\* apply_sync: the interpolant goes from column 0 to column 1 if forward, from
\* column 1 to column 0 otherwise; it is evaluated at every time of times
apply_sync(sync_points, times, forward) ==
    LET fcn(q) ==
            IF forward
            THEN interp1d(SortByX(sync_points), q)
            ELSE interp1d(SortByX([k \in 1..Len(sync_points) |->
                                      <<sync_points[k][2], sync_points[k][1]>>]), q)
    IN  [j \in 1..Len(times) |-> fcn(times[j])]

(***************************************************************************)
(* State of a run.                                                         *)
(***************************************************************************)
VARIABLES
    version,      \* spikeglx.get_neuropixel_version_from_folder(ses_path)
    ephys_files,  \* spikeglx.glob_ephys_files(ses_path)
    linear,       \* the caller's linear argument
    tol,          \* the caller's tol argument, or the routine's default
    pc,           \* the statement the run is at
    probes,       \* ephys_files of the routine (version3B: without the nidq files)
    d,            \* version3A: the Bunch get_sync_fronts returned
    tried,        \* the auxiliary names get_sync_fronts was called with, in order
    sync_nidq,    \* version3B: the edge times of the nidq file
    iref,         \* version3A: index of the reference probe (0: not chosen)
    sr,           \* sampling rate handed to the fit and to the save
    qc_all,
    ind,          \* probe of the current loop iteration
    t,            \* sync_probe_front_times: time-serie to be synchronized
    tref,         \* sync_probe_front_times: time-serie of the reference
    pol,          \* sync_probe_front_times: <<slope, intercept>>
    sync_points,  \* sync_probe_front_times: the control points
    qc,           \* sync_probe_front_times: the quality returned
    timestamps,   \* the table the loop hands to _save_timestamps_npy
    file_sync,    \* per probe, the saved .sync.npy table
    file_ts,      \* per probe, the saved .timestamps.npy table
    log,          \* the messages logged, in order
    stage,        \* per probe, the step of the run it has reached
    nfit,         \* per probe, how many times np.polyfit ran for it
    nwrite,       \* per probe, how many times its files were saved
    qcs,          \* per probe, the quality sync_probe_front_times returned for it
    vret,         \* the value version3A / version3B returned
    ret,          \* the value sync returned
    err,          \* the exception that ended the run
    sync_file,    \* apply_sync: the table np.load(sync_file) returns
    times,        \* apply_sync: times in seconds to interpolate
    forward,      \* apply_sync: the direction
    interp_times, \* the times apply_sync returned
    back_times,   \* the times apply_sync returned for interp_times, the other way
    alf,          \* sync_spike_sortings: per probe, the files of its alf folder
    npatch,       \* per probe, how many times its spikes.times file was patched
    routine,      \* confirm_video_remote_folder or confirm_ephys_remote_folder
    force,        \* the caller's force argument
    local_sessions,    \* the session folders under local_folder, by name
    remote_sessions,   \* the session folders under remote_folder, by name
    src_session_paths, \* the sessions found with a transfer_me.flag
    transferred   \* the sessions transfer_folder copied and check_transfer passed

inputs == <<version, ephys_files, linear, tol>>
fit == <<t, tref, pol, sync_points, qc>>
disk == <<file_sync, file_ts>>
history == <<stage, nfit, nwrite, qcs>>
applied == <<sync_file, times, forward, interp_times, back_times>>
sorting == <<alf, npatch>>
transfer == <<routine, force, local_sessions, remote_sessions, src_session_paths,
              transferred>>
\* the state of the routines other than sync
others == <<applied, sorting, transfer>>
vars == <<version, ephys_files, linear, tol, pc, probes, d, tried, sync_nidq, iref,
          sr, qc_all, ind, t, tref, pol, sync_points, qc, timestamps, file_sync,
          file_ts, log, stage, nfit, nwrite, qcs, vret, ret, err, sync_file, times,
          forward, interp_times, back_times, alf, npatch, routine, force,
          local_sessions, remote_sessions, src_session_paths, transferred>>

\* the files of the probes of a session
ProbeFiles(files) == SelectSeq(files, LAMBDA ef : ~ef.nidq)
\* the nidq files of a session
NidqFiles(files) == SelectSeq(files, LAMBDA ef : ef.nidq)
ProbeIds == 1..Len(ProbeFiles(ephys_files))

Init ==
    /\ version \in {"3A", "3B"}
    /\ \E k \in 0..MaxProbes, nnidq \in 0..MaxNidq, nidq \in Syncs3B :
           /\ version = "3A" => nnidq = 0
           /\ \E syncs \in [1..k -> Syncs(version)] :
                  ephys_files = EphysFiles(syncs, nnidq, nidq)
    /\ \E kwargs \in Arguments(version) :
           linear = kwargs.linear /\ tol = kwargs.tol
    /\ pc = "sync"
    /\ probes = <<>>
    /\ d = None
    /\ tried = <<>>
    /\ sync_nidq = <<>>
    /\ iref = 0
    /\ sr = 0
    /\ qc_all = TRUE
    /\ ind = 0
    /\ t = <<>>
    /\ tref = <<>>
    /\ pol = <<Zero, Zero>>
    /\ sync_points = <<>>
    /\ qc = TRUE
    /\ timestamps = <<>>
    /\ file_sync = [p \in ProbeIds |-> NoFile]
    /\ file_ts = [p \in ProbeIds |-> NoFile]
    /\ log = <<>>
    /\ stage = [p \in ProbeIds |-> "UNSYNCED"]
    /\ nfit = [p \in ProbeIds |-> 0]
    /\ nwrite = [p \in ProbeIds |-> 0]
    /\ qcs = [p \in ProbeIds |-> NoValue]
    /\ vret = NoValue
    /\ ret = NoValue
    /\ err = ""
    /\ sync_file = NoFile
    /\ times = <<>>
    /\ forward = TRUE
    /\ interp_times = <<>>
    /\ back_times = <<>>
    /\ routine = ""
    /\ force = FALSE
    /\ local_sessions = <<>>
    /\ remote_sessions = <<>>
    /\ src_session_paths = <<>>
    /\ transferred = {}
    /\ alf = <<>>
    /\ npatch = <<>>

\* raise
Raise(e) == pc' = "raised" /\ err' = e

(***************************************************************************)
(* sync                                                                    *)
(***************************************************************************)
\* sync calls version3A or version3B by the version of the session
SyncDispatch ==
    /\ pc = "sync"
    /\ pc' = IF version = "3A" THEN "version3A" ELSE "version3B"
    /\ UNCHANGED <<inputs, others, probes, d, tried, sync_nidq, iref, sr, qc_all, ind, fit,
                   timestamps, disk, log, history, vret, ret, err>>

\* the routine has returned; sync has no return statement
SyncReturn ==
    /\ pc = "returned"
    /\ ret' = "None"
    /\ pc' = "done"
    /\ UNCHANGED <<inputs, others, probes, d, tried, sync_nidq, iref, sr, qc_all, ind, fit,
                   timestamps, disk, log, history, vret, err>>

(***************************************************************************)
(* version3A                                                               *)
(***************************************************************************)
\* glob the files; a session of one probe or none is skipped
V3A_Glob ==
    /\ pc = "version3A"
    /\ probes' = ephys_files
    /\ IF SingleProbe(Len(ephys_files))
       THEN /\ log' = Append(log, "warning: Skipping single probe session")
            /\ vret' = PyBool(TRUE)
            /\ pc' = "returned"
       ELSE /\ pc' = "frame2ttl"
            /\ UNCHANGED <<log, vret>>
    /\ UNCHANGED <<inputs, others, d, tried, sync_nidq, iref, sr, qc_all, ind, fit,
                   timestamps, disk, history, ret, err>>

\* d = get_sync_fronts('frame2ttl'); if not d: warning
V3A_Frame2ttl ==
    /\ pc = "frame2ttl"
    /\ d' = get_sync_fronts(probes, "frame2ttl")
    /\ tried' = Append(tried, "frame2ttl")
    /\ IF d' = None
       THEN /\ log' = Append(log, "warning: frame2ttl not detected on both probes, using camera sync")
            /\ pc' = "right_camera"
       ELSE /\ pc' = "chop"
            /\ UNCHANGED log
    /\ UNCHANGED <<inputs, others, probes, sync_nidq, iref, sr, qc_all, ind, fit,
                   timestamps, disk, history, vret, ret, err>>

\* d = get_sync_fronts('right_camera') and the check of the first camera edges;
\* d['times'] of nothing is a TypeError
V3A_Camera ==
    /\ pc = "right_camera"
    /\ d' = get_sync_fronts(probes, "right_camera")
    /\ tried' = Append(tried, "right_camera")
    /\ IF d' = None
       THEN Raise("TypeError")
       ELSE IF ~RGt(RMin(FirstTimes(d'.times)), CameraMinStart)
       THEN Raise("ValueError: Cameras started before ephys, no sync possible")
       ELSE pc' = "chop" /\ UNCHANGED err
    /\ UNCHANGED <<inputs, others, probes, sync_nidq, iref, sr, qc_all, ind, fit,
                   timestamps, disk, log, history, vret, ret>>

\* chop off to the lowest number of sync points
V3A_Chop ==
    /\ pc = "chop"
    /\ IF Cardinality({Sizes(d.times)[i] : i \in 1..Len(d.times)}) > 1
       THEN log' = Append(log, "warning: Probes don't have the same number of synchronizations pulses")
       ELSE UNCHANGED log
    /\ d' = [d EXCEPT !.times = Chop(d.times)]
    /\ pc' = "iref"
    /\ UNCHANGED <<inputs, others, probes, tried, sync_nidq, iref, sr, qc_all, ind, fit,
                   timestamps, disk, history, vret, ret, err>>

\* the reference probe is the one with the most sync pulses detected
V3A_Ref ==
    /\ pc = "iref"
    /\ iref' = ArgMax(d.nsync)
    /\ sr' = probes[iref'].fs
    /\ qc_all' = TRUE
    /\ ind' = 1
    /\ pc' = "loop"
    /\ UNCHANGED <<inputs, others, probes, d, tried, sync_nidq, fit, timestamps, disk, log,
                   history, vret, ret, err>>

\* for ind, ephys_file in enumerate(ephys_files): the reference probe gets the
\* identity, any other probe is fitted to the reference probe
V3A_Loop ==
    /\ pc = "loop"
    /\ version = "3A"
    /\ IF ind > Len(probes)
       THEN /\ vret' = PyBool(qc_all)
            /\ pc' = "returned"
            /\ UNCHANGED <<t, tref, timestamps>>
       ELSE IF ind = iref
       THEN /\ timestamps' = Identity
            /\ pc' = "save"
            /\ UNCHANGED <<t, tref, vret>>
       ELSE /\ t' = d.times[ind]
            /\ tref' = d.times[iref]
            /\ pc' = "polyfit"
            /\ UNCHANGED <<timestamps, vret>>
    /\ UNCHANGED <<inputs, others, probes, d, tried, sync_nidq, iref, sr, qc_all, ind, pol,
                   sync_points, qc, disk, log, history, ret, err>>

(***************************************************************************)
(* version3B                                                               *)
(***************************************************************************)
\* glob the files and split them; fewer than two probes: nothing to do
V3B_Glob ==
    /\ pc = "version3B"
    /\ probes' = ProbeFiles(ephys_files)
    /\ IF SingleProbe(Len(probes'))
       THEN /\ vret' = PyBool(TRUE)
            /\ pc' = "returned"
       ELSE /\ pc' = "nidq"
            /\ UNCHANGED vret
    /\ UNCHANGED <<inputs, others, d, tried, sync_nidq, iref, sr, qc_all, ind, fit,
                   timestamps, disk, log, history, ret, err>>

\* the assertion on the nidq files as a check that there is at least one
V3B_Nidq_AtLeastOne ==
    /\ pc = "nidq"
    /\ IF Len(NidqFiles(ephys_files)) < 1
       THEN /\ Raise("AssertionError")
            /\ UNCHANGED <<sync_nidq, qc_all, ind>>
       ELSE /\ sync_nidq' = NidqFiles(ephys_files)[1].sync["imec_sync"]
            /\ qc_all' = TRUE
            /\ ind' = 1
            /\ pc' = "loop"
            /\ UNCHANGED err
    /\ UNCHANGED <<inputs, others, probes, d, tried, iref, sr, fit, timestamps, disk, log,
                   history, vret, ret>>

\* assert(len(nidq_file) == 1); the fronts of the nidq file are the reference
V3B_Nidq ==
    /\ pc = "nidq"
    /\ IF Len(NidqFiles(ephys_files)) # 1
       THEN /\ Raise("AssertionError")
            /\ UNCHANGED <<sync_nidq, qc_all, ind>>
       ELSE /\ sync_nidq' = NidqFiles(ephys_files)[1].sync["imec_sync"]
            /\ qc_all' = TRUE
            /\ ind' = 1
            /\ pc' = "loop"
            /\ UNCHANGED err
    /\ UNCHANGED <<inputs, others, probes, d, tried, iref, sr, fit, timestamps, disk, log,
                   history, vret, ret>>

\* the loop of version3B with the sampling rate read from the nidq file
V3B_Loop_NidqRate ==
    /\ pc = "loop"
    /\ version = "3B"
    /\ IF ind > Len(probes)
       THEN /\ vret' = PyBool(qc_all)
            /\ pc' = "returned"
            /\ UNCHANGED <<sr, t, tref, err>>
       ELSE /\ sr' = NidqFiles(ephys_files)[1].fs
            /\ IF Len(sync_nidq) # Len(probes[ind].sync["imec_sync"])
               THEN /\ Raise("AssertionError")
                    /\ UNCHANGED <<t, tref>>
               ELSE /\ t' = probes[ind].sync["imec_sync"]
                    /\ tref' = sync_nidq
                    /\ pc' = "polyfit"
                    /\ UNCHANGED err
            /\ UNCHANGED vret
    /\ UNCHANGED <<inputs, others, probes, d, tried, sync_nidq, iref, qc_all, ind, pol,
                   sync_points, qc, timestamps, disk, log, history, ret>>

\* the loop of version3B with the streams cut to the shorter of the two, as
\* version3A does, instead of the assertion on their sizes
V3B_Loop_Chop ==
    /\ pc = "loop"
    /\ version = "3B"
    /\ IF ind > Len(probes)
       THEN /\ vret' = PyBool(qc_all)
            /\ pc' = "returned"
            /\ UNCHANGED <<sr, t, tref, err>>
       ELSE /\ sr' = probes[ind].fs
            /\ t' = SubSeq(probes[ind].sync["imec_sync"], 1,
                           IMin(<<Len(sync_nidq), Len(probes[ind].sync["imec_sync"])>>))
            /\ tref' = SubSeq(sync_nidq, 1,
                              IMin(<<Len(sync_nidq), Len(probes[ind].sync["imec_sync"])>>))
            /\ pc' = "polyfit"
            /\ UNCHANGED <<vret, err>>
    /\ UNCHANGED <<inputs, others, probes, d, tried, sync_nidq, iref, qc_all, ind, pol,
                   sync_points, qc, timestamps, disk, log, history, ret>>

\* for ef in ephys_files: every probe is fitted to the nidq file, with the
\* probe's own sampling rate; assert(sync_nidq.times.size == sync_probe.times.size)
V3B_Loop ==
    /\ pc = "loop"
    /\ version = "3B"
    /\ IF ind > Len(probes)
       THEN /\ vret' = PyBool(qc_all)
            /\ pc' = "returned"
            /\ UNCHANGED <<sr, t, tref, err>>
       ELSE /\ sr' = probes[ind].fs
            /\ IF Len(sync_nidq) # Len(probes[ind].sync["imec_sync"])
               THEN /\ Raise("AssertionError")
                    /\ UNCHANGED <<t, tref>>
               ELSE /\ t' = probes[ind].sync["imec_sync"]
                    /\ tref' = sync_nidq
                    /\ pc' = "polyfit"
                    /\ UNCHANGED err
            /\ UNCHANGED vret
    /\ UNCHANGED <<inputs, others, probes, d, tried, sync_nidq, iref, qc_all, ind, pol,
                   sync_points, qc, timestamps, disk, log, history, ret>>

(***************************************************************************)
(* sync_probe_front_times                                                  *)
(***************************************************************************)
\* the fit that starts from the qc the call before it left
FitLinear_KeepQc ==
    /\ pc = "polyfit"
    /\ pol' = polyfit(t, tref)
    /\ stage' = [stage EXCEPT ![ind] = "FIT_LINEAR"]
    /\ nfit' = [nfit EXCEPT ![ind] = @ + 1]
    /\ pc' = AfterPolyfit(linear)
    /\ UNCHANGED <<inputs, others, probes, d, tried, sync_nidq, iref, sr, qc_all, ind,
                   t, tref, qc, sync_points, timestamps, disk, log, nwrite, qcs, vret,
                   ret, err>>

\* qc = True; pol = np.polyfit(t, tref, 1)
FitLinear ==
    /\ pc = "polyfit"
    /\ qc' = TRUE
    /\ pol' = polyfit(t, tref)
    /\ stage' = [stage EXCEPT ![ind] = "FIT_LINEAR"]
    /\ nfit' = [nfit EXCEPT ![ind] = @ + 1]
    /\ pc' = AfterPolyfit(linear)
    /\ UNCHANGED <<inputs, others, probes, d, tried, sync_nidq, iref, sr, qc_all, ind, t,
                   tref, sync_points, timestamps, disk, log, nwrite, qcs, vret, ret, err>>

\* if not linear: the control points are the line plus the low-passed residual
\* on the output grid; dsp.lp is not part of the model, its output on the grid
\* is any of SmoothedCurves
FitSmoothed ==
    /\ pc = "smooth"
    /\ \E curve \in SmoothedCurves :
           sync_points' = SmoothedPoints(pol, OutputGrid(tref),
                              [k \in 1..Len(OutputGrid(tref)) |-> Smoothed(curve, k)])
    /\ stage' = [stage EXCEPT ![ind] = "FIT_SMOOTHED"]
    /\ pc' = "verify"
    /\ UNCHANGED <<inputs, others, probes, d, tried, sync_nidq, iref, sr, qc_all, ind, t,
                   tref, pol, qc, timestamps, disk, log, nfit, nwrite, qcs, vret, ret, err>>

\* else: the control points are the line at 0 and 1
FitLine ==
    /\ pc = "line"
    /\ sync_points' = LinearPoints(pol)
    /\ pc' = "verify"
    /\ UNCHANGED <<inputs, others, probes, d, tried, sync_nidq, iref, sr, qc_all, ind, t,
                   tref, pol, qc, timestamps, disk, log, history, vret, ret, err>>

\* the verification as a check that raises when the tolerance is exceeded
Verify_Raises ==
    /\ pc = "verify"
    /\ IF ExceedsTol(sync_points, t, tref, sr, tol)
       THEN /\ log' = Append(log, "error: Synchronization check exceeds tolerance")
            /\ qc' = FALSE
            /\ Raise("ValueError")
       ELSE /\ pc' = "qc_all"
            /\ UNCHANGED <<log, qc, err>>
    /\ stage' = [stage EXCEPT ![ind] = "VERIFIED"]
    /\ qcs' = [qcs EXCEPT ![ind] = PyBool(qc')]
    /\ UNCHANGED <<inputs, others, probes, d, tried, sync_nidq, iref, sr, qc_all, ind, t,
                   tref, pol, sync_points, timestamps, disk, nfit, nwrite, vret, ret>>

\* test that the interp is within tol sample; return sync_points, qc
Verify ==
    /\ pc = "verify"
    /\ IF ExceedsTol(sync_points, t, tref, sr, tol)
       THEN /\ log' = Append(log, "error: Synchronization check exceeds tolerance")
            /\ qc' = FALSE
       ELSE UNCHANGED <<log, qc>>
    /\ stage' = [stage EXCEPT ![ind] = "VERIFIED"]
    /\ qcs' = [qcs EXCEPT ![ind] = PyBool(qc')]
    /\ pc' = "qc_all"
    /\ UNCHANGED <<inputs, others, probes, d, tried, sync_nidq, iref, sr, qc_all, ind, t,
                   tref, pol, sync_points, timestamps, disk, nfit, nwrite, vret, ret,
                   err>>

\* back in the loop: timestamps, qc = sync_probe_front_times(...); qc_all &= qc
Accumulate ==
    /\ pc = "qc_all"
    /\ timestamps' = sync_points
    /\ qc_all' = AndQc(qc_all, qc)
    /\ pc' = "save"
    /\ UNCHANGED <<inputs, others, probes, d, tried, sync_nidq, iref, sr, ind, fit, disk,
                   log, history, vret, ret, err>>

(***************************************************************************)
(* _save_timestamps_npy                                                    *)
(***************************************************************************)
\* np.save(file_sync, tself_tref); np.save(file_ts, timestamps); next probe
Save ==
    /\ pc = "save"
    /\ file_sync' = [file_sync EXCEPT ![ind] = timestamps]
    /\ file_ts' = [file_ts EXCEPT ![ind] = TimestampsTable(timestamps, sr)]
    /\ stage' = [stage EXCEPT ![ind] = "PERSISTED"]
    /\ nwrite' = [nwrite EXCEPT ![ind] = @ + 1]
    /\ ind' = ind + 1
    /\ pc' = "loop"
    /\ UNCHANGED <<inputs, others, probes, d, tried, sync_nidq, iref, sr, qc_all, fit,
                   timestamps, log, nfit, qcs, vret, ret, err>>

Next ==
    \/ SyncDispatch
    \/ V3A_Glob
    \/ V3A_Frame2ttl
    \/ V3A_Camera
    \/ V3A_Chop
    \/ V3A_Ref
    \/ V3A_Loop
    \/ V3B_Glob
    \/ V3B_Nidq
    \/ V3B_Loop
    \/ FitLinear
    \/ FitSmoothed
    \/ FitLine
    \/ Verify
    \/ Accumulate
    \/ Save
    \/ SyncReturn

Spec == Init /\ [][Next]_vars

(***************************************************************************)
(* apply_sync, on its own: a caller loads a saved table and converts times  *)
(* one way, then converts the result the other way.                        *)
(***************************************************************************)
\* the values of the tables' entries, in seconds
Seconds == 0..MaxLen
\* the columns of n distinct values
Columns(n) == {c \in [1..n -> Seconds] : \A i, j \in 1..n : i # j => c[i] # c[j]}
\* the tables of n rows np.load(sync_file) may return: the local times
\* increase, as in the tables _save_timestamps_npy writes, the reference
\* times are in any order, and no value is twice in a column
SyncTables(n) ==
    {[k \in 1..n |-> <<RInt(a[k]), RInt(b[k])>>] :
        a \in {c \in Columns(n) : \A i \in 1..(n - 1) : c[i] < c[i + 1]},
        b \in Columns(n)}
\* the times a caller asks for: the local times of the control points, their
\* reference times, or times between and beyond them
QueryTimes(table) ==
    {Column(table, 1), Column(table, 2), <<Rat(1, 2), Rat(5, 2), RInt(MaxLen + 1)>>}

InitApply ==
    /\ \E n \in 2..MaxLen : sync_file \in SyncTables(n)
    /\ times \in QueryTimes(sync_file)
    /\ forward \in BOOLEAN
    /\ interp_times = <<>>
    /\ back_times = <<>>
    /\ routine = ""
    /\ force = FALSE
    /\ local_sessions = <<>>
    /\ remote_sessions = <<>>
    /\ src_session_paths = <<>>
    /\ transferred = {}
    /\ alf = <<>>
    /\ npatch = <<>>
    /\ pc = "apply_sync"
    /\ version = "3A"
    /\ ephys_files = <<>>
    /\ linear = FALSE
    /\ tol = DefaultTol("3A")
    /\ probes = <<>>
    /\ d = None
    /\ tried = <<>>
    /\ sync_nidq = <<>>
    /\ iref = 0
    /\ sr = 0
    /\ qc_all = TRUE
    /\ ind = 0
    /\ t = <<>>
    /\ tref = <<>>
    /\ pol = <<Zero, Zero>>
    /\ sync_points = <<>>
    /\ qc = TRUE
    /\ timestamps = <<>>
    /\ file_sync = <<>>
    /\ file_ts = <<>>
    /\ log = <<>>
    /\ stage = <<>>
    /\ nfit = <<>>
    /\ nwrite = <<>>
    /\ qcs = <<>>
    /\ vret = NoValue
    /\ ret = NoValue
    /\ err = ""

run == <<probes, d, tried, sync_nidq, iref, sr, qc_all, ind, fit, timestamps, disk,
         log, history, vret, ret, err>>

\* interp_times = apply_sync(sync_file, times, forward)
ApplySync ==
    /\ pc = "apply_sync"
    /\ interp_times' = apply_sync(sync_file, times, forward)
    /\ pc' = "applied"
    /\ UNCHANGED <<inputs, run, sorting, transfer, sync_file, times, forward, back_times>>

\* back_times = apply_sync(sync_file, interp_times, not forward)
ApplySyncBack ==
    /\ pc = "applied"
    /\ back_times' = apply_sync(sync_file, interp_times, ~forward)
    /\ pc' = "round_trip"
    /\ UNCHANGED <<inputs, run, sorting, transfer, sync_file, times, forward, interp_times>>

NextApply ==
    \/ ApplySync
    \/ ApplySyncBack

SpecApply == InitApply /\ [][NextApply]_vars

(***************************************************************************)
(* sync_spike_sortings (ibllib/ephys/spikes.py): converts the spike        *)
(* sorting of every probe to ALF and patches spikes.times with the         *)
(* probe's synchronisation table.  Specification SpecSort.                 *)
(***************************************************************************)
\* the labels of the probes, in the order of their folders
Labels == <<"probe00", "probe01", "probe02", "probe03">>
\* file names of an alf folder: spikes.times.npy and spikes.times_<label>.npy
SpikesTimes == <<"spikes.times", "npy">>
Renamed(label) == <<"spikes.times", label, "npy">>
\* the spike times ks2_to_alf writes for a probe, in seconds of the probe
SpikeTrains == {[j \in 1..n |-> Rat(2 * j - 1, 2)] : n \in {0, MaxLen}}
\* what np.load of the .sync.npy file beside a probe's ap file returns, NoFile
\* if there is no such file: the reference probe's table, a linear table and
\* a table of three control points
SyncFiles ==
    {NoFile, Identity, LinearPoints(<<Rat(11, 10), Rat(1, 2)>>),
     <<<<Zero, Rat(1, 4)>>, <<One, Rat(3, 2)>>, <<RInt(2), Rat(5, 2)>>>>}
\* the orders glob_ephys_files may list k probes in
Orders(k) == {o \in [1..k -> 1..k] : \A i, j \in 1..k : i # j => o[i] # o[j]}
\* the entry of glob_ephys_files for the probe of the dir-th folder
ApFile(dir, sync_npy, spikes) ==
    [label |-> Labels[dir], dir |-> dir, ap |-> TRUE, sync_npy |-> sync_npy,
     spikes |-> spikes]
\* an entry of glob_ephys_files without ap file (the nidq file of a 3B session)
NoApFile ==
    [label |-> "", dir |-> 0, ap |-> FALSE, sync_npy |-> NoFile, spikes |-> <<>>]

\* sorted(...): the ap files by their folder
SortByDir(files) ==
    [r \in 1..Len(files) |->
        files[CHOOSE k \in 1..Len(files) :
                  Cardinality({j \in 1..Len(files) : files[j].dir < files[k].dir})
                      = r - 1]]

InitSort ==
    /\ \E k \in 0..MaxProbes, nnidq \in 0..MaxNidq :
           \E o \in Orders(k), syncs \in [1..k -> SyncFiles],
              trains \in [1..k -> SpikeTrains] :
               /\ ephys_files =
                      [i \in 1..nnidq |-> NoApFile]
                          \o [i \in 1..k |-> ApFile(o[i], syncs[o[i]], trains[o[i]])]
               /\ alf = [p \in 1..k |-> <<>>]
               /\ npatch = [p \in 1..k |-> 0]
    /\ pc = "sync_spike_sortings"
    /\ version = "3A"
    /\ linear = FALSE
    /\ tol = DefaultTol("3A")
    /\ probes = <<>>
    /\ d = None
    /\ tried = <<>>
    /\ sync_nidq = <<>>
    /\ iref = 0
    /\ sr = 0
    /\ qc_all = TRUE
    /\ ind = 0
    /\ t = <<>>
    /\ tref = <<>>
    /\ pol = <<Zero, Zero>>
    /\ sync_points = <<>>
    /\ qc = TRUE
    /\ timestamps = <<>>
    /\ file_sync = <<>>
    /\ file_ts = <<>>
    /\ log = <<>>
    /\ stage = <<>>
    /\ nfit = <<>>
    /\ nwrite = <<>>
    /\ qcs = <<>>
    /\ vret = NoValue
    /\ ret = NoValue
    /\ err = ""
    /\ sync_file = NoFile
    /\ times = <<>>
    /\ forward = TRUE
    /\ interp_times = <<>>
    /\ back_times = <<>>
    /\ routine = ""
    /\ force = FALSE
    /\ local_sessions = <<>>
    /\ remote_sessions = <<>>
    /\ src_session_paths = <<>>
    /\ transferred = {}

\* what sync_spike_sortings leaves alone
unsorted == <<version, linear, tol, d, tried, sync_nidq, iref, sr, qc_all, fit,
              timestamps, disk, history, vret, ret, back_times, transfer>>

\* subdirs, labels, efiles_sorted, srates = zip(*sorted([... if ep.get('ap')])):
\* unpacking the empty zip raises ValueError
SortGlob ==
    /\ pc = "sync_spike_sortings"
    /\ LET with_ap == SelectSeq(ephys_files, LAMBDA ep : ep.ap)
       IN  IF with_ap = <<>>
           THEN /\ Raise("ValueError")
                /\ UNCHANGED <<probes, ind>>
           ELSE /\ probes' = SortByDir(with_ap)
                /\ ind' = 1
                /\ pc' = "ks2_to_alf"
                /\ UNCHANGED err
    /\ UNCHANGED <<ephys_files, unsorted, sorting, log, sync_file, times, forward,
                   interp_times>>

\* the head of the loop body: ks2_to_alf writes the probe's spikes.times.npy in
\* alf/<label>; a single probe ends the loop here
SortConvert ==
    /\ pc = "ks2_to_alf"
    /\ alf' = [alf EXCEPT ![ind] = SpikesTimes :> probes[ind].spikes]
    /\ pc' = IF Len(probes) = 1 THEN "returned" ELSE "sync_file"
    /\ UNCHANGED <<ephys_files, unsorted, npatch, probes, ind, log, err, sync_file,
                   times, forward, interp_times>>

\* the rest of the loop body with a break where the code continues
SortSync_Break ==
    /\ pc = "sync_file"
    /\ IF probes[ind].sync_npy = NoFile
       THEN /\ log' = Append(log, <<"error: No synchronisation file for",
                                    probes[ind].label>>)
            /\ alf' = [alf EXCEPT ![ind] =
                           Renamed(probes[ind].label) :> alf[ind][SpikesTimes]]
            /\ pc' = "returned"
            /\ UNCHANGED <<npatch, sync_file, times, forward, interp_times>>
       ELSE /\ sync_file' = probes[ind].sync_npy
            /\ times' = alf[ind][SpikesTimes]
            /\ forward' = TRUE
            /\ interp_times' = apply_sync(sync_file', times', forward')
            /\ alf' = [alf EXCEPT ![ind] = SpikesTimes :> interp_times']
            /\ npatch' = [npatch EXCEPT ![ind] = @ + 1]
            /\ pc' = IF ind = Len(probes) THEN "returned" ELSE "ks2_to_alf"
            /\ UNCHANGED log
    /\ ind' = ind + 1
    /\ UNCHANGED <<ephys_files, unsorted, probes, err>>

\* the rest of the loop body: without sync file the error is logged, the file
\* is renamed spikes.times_<label>.npy and the loop continues; with one,
\* spikes.times.npy is loaded, mapped by apply_sync(forward=True) and saved
SortSync ==
    /\ pc = "sync_file"
    /\ IF probes[ind].sync_npy = NoFile
       THEN /\ log' = Append(log, <<"error: No synchronisation file for",
                                    probes[ind].label>>)
            /\ alf' = [alf EXCEPT ![ind] =
                           Renamed(probes[ind].label) :> alf[ind][SpikesTimes]]
            /\ UNCHANGED <<npatch, sync_file, times, forward, interp_times>>
       ELSE /\ sync_file' = probes[ind].sync_npy
            /\ times' = alf[ind][SpikesTimes]
            /\ forward' = TRUE
            /\ interp_times' = apply_sync(sync_file', times', forward')
            /\ alf' = [alf EXCEPT ![ind] = SpikesTimes :> interp_times']
            /\ npatch' = [npatch EXCEPT ![ind] = @ + 1]
            /\ UNCHANGED log
    /\ ind' = ind + 1
    /\ pc' = IF ind = Len(probes) THEN "returned" ELSE "ks2_to_alf"
    /\ UNCHANGED <<ephys_files, unsorted, probes, err>>

NextSort ==
    \/ SortGlob
    \/ SortConvert
    \/ SortSync

SpecSort == InitSort /\ [][NextSort]_vars

(***************************************************************************)
(* confirm_video_remote_folder and confirm_ephys_remote_folder             *)
(* (ibllib/pipes/misc.py): offer every session with a transfer_me.flag for *)
(* transfer to the remote folder.  Specification SpecTransfer.             *)
(***************************************************************************)
MaxSessions == 2
\* session folders are named by a number: the sessions found, and one name
\* more that rename_session may move a session to
SessionNames == 1..(MaxSessions + 1)
\* a session folder of the remote: whether it holds the raw data folder the
\* routine copies, a raw_behavior_data folder and an extract_me.flag
RemoteFolders ==
    {r \in [data : BOOLEAN, behavior : BOOLEAN, extract_me : BOOLEAN] :
        r.extract_me => r.behavior}

InitTransfer ==
    /\ routine \in {"video", "ephys"}
    /\ force \in BOOLEAN
    /\ \E k \in 0..MaxSessions :
           local_sessions = [n \in 1..k |-> [id |-> n, flag |-> TRUE]]
    /\ remote_sessions \in [SessionNames -> RemoteFolders]
    /\ src_session_paths = <<>>
    /\ transferred = {}
    /\ pc = "confirm_remote_folder"
    /\ version = "3A"
    /\ ephys_files = <<>>
    /\ linear = FALSE
    /\ tol = DefaultTol("3A")
    /\ probes = <<>>
    /\ d = None
    /\ tried = <<>>
    /\ sync_nidq = <<>>
    /\ iref = 0
    /\ sr = 0
    /\ qc_all = TRUE
    /\ ind = 0
    /\ t = <<>>
    /\ tref = <<>>
    /\ pol = <<Zero, Zero>>
    /\ sync_points = <<>>
    /\ qc = TRUE
    /\ timestamps = <<>>
    /\ file_sync = <<>>
    /\ file_ts = <<>>
    /\ log = <<>>
    /\ stage = <<>>
    /\ nfit = <<>>
    /\ nwrite = <<>>
    /\ qcs = <<>>
    /\ vret = NoValue
    /\ ret = NoValue
    /\ err = ""
    /\ sync_file = NoFile
    /\ times = <<>>
    /\ forward = TRUE
    /\ interp_times = <<>>
    /\ back_times = <<>>
    /\ alf = <<>>
    /\ npatch = <<>>

\* the session of the current loop iteration
session_path == src_session_paths[ind]
\* the end of a loop iteration: the next session, or the end of the loop
NextSession ==
    /\ ind' = ind + 1
    /\ pc' = IF ind = Len(src_session_paths) THEN "returned" ELSE "input"

\* behavior_exists(remote_session_path); confirm_video_remote_folder does not ask
behavior_exists(name) == routine = "video" \/ remote_sessions[name].behavior

\* transfer_folder to the remote session of that name: with force the
\* destination is removed first, copytree raises when the destination exists,
\* and check_transfer asserts that the copy is complete
transfer_folder(name, forced, complete) ==
    IF remote_sessions[name].data /\ ~forced
    THEN [remote |-> remote_sessions, raised |-> "FileExistsError"]
    ELSE [remote |-> [remote_sessions EXCEPT ![name].data = TRUE],
          raised |-> IF complete THEN "" ELSE "AssertionError"]

\* the extract_me.flag of the remote session is removed if it exists
\* (confirm_ephys_remote_folder only)
RemoveExtractMe(remote, name) ==
    IF routine = "ephys" THEN [remote EXCEPT ![name].extract_me = FALSE] ELSE remote

\* src_session_paths = [x.parent for x in local_folder.rglob("transfer_me.flag")],
\* in the order rglob lists them; without any the routine returns
ConfirmGlob ==
    /\ pc = "confirm_remote_folder"
    /\ LET found == {n \in DOMAIN local_sessions : local_sessions[n].flag}
       IN  /\ src_session_paths' \in
                  {s \in [1..Cardinality(found) -> found] :
                      \A i, j \in DOMAIN s : i # j => s[i] # s[j]}
           /\ IF found = {}
              THEN pc' = "returned" /\ ind' = 0
              ELSE pc' = "input" /\ ind' = 1
    /\ UNCHANGED <<version, ephys_files, linear, tol, probes, d, tried, sync_nidq,
                   iref, sr, qc_all, fit, timestamps, disk, log, history, vret, ret,
                   err, applied, sorting, routine, force, local_sessions,
                   remote_sessions, transferred>>

\* an answer that is none of the eight: the routine calls itself, without the
\* force argument, and returns what the call returns
AnswerOther ==
    /\ pc = "input"
    /\ force' = FALSE
    /\ pc' = "confirm_remote_folder"
    /\ UNCHANGED <<version, ephys_files, linear, tol, probes, d, tried, sync_nidq,
                   iref, sr, qc_all, ind, fit, timestamps, disk, log, history, vret,
                   ret, err, applied, sorting, routine, local_sessions,
                   remote_sessions, src_session_paths, transferred>>

\* 'y' or 'yes': transfer under the same name, then flag_file.unlink()
AnswerYes ==
    /\ pc = "input"
    /\ IF ~behavior_exists(session_path)
       THEN /\ NextSession
            /\ UNCHANGED <<local_sessions, remote_sessions, transferred, err>>
       ELSE \E complete \in BOOLEAN :
                LET copy == transfer_folder(session_path, force, complete)
                IN  IF copy.raised # ""
                    THEN /\ Raise(copy.raised)
                         /\ remote_sessions' = copy.remote
                         /\ UNCHANGED <<local_sessions, transferred, ind>>
                    ELSE /\ transferred' =
                                transferred \cup {local_sessions[session_path].id}
                         /\ local_sessions' =
                                [local_sessions EXCEPT ![session_path].flag = FALSE]
                         /\ remote_sessions' =
                                RemoveExtractMe(copy.remote, session_path)
                         /\ NextSession
                         /\ UNCHANGED err
    /\ UNCHANGED <<version, ephys_files, linear, tol, probes, d, tried, sync_nidq,
                   iref, sr, qc_all, fit, timestamps, disk, log, history, vret, ret,
                   applied, sorting, routine, force, src_session_paths>>

\* 'r' or 'rename': rename_session moves the session folder to the name the
\* user gives (the same name, or one no session has), the data are
\* transferred under the new name, without force, and flag_file, which is
\* still the path under the old name, is unlinked
AnswerRename ==
    /\ pc = "input"
    /\ \E new_session_path \in
              {session_path} \cup (SessionNames \ DOMAIN local_sessions) :
           LET moved ==
                   [n \in (DOMAIN local_sessions \ {session_path})
                              \cup {new_session_path} |->
                       IF n = new_session_path
                       THEN local_sessions[session_path]
                       ELSE local_sessions[n]]
           IN  IF ~behavior_exists(new_session_path)
               THEN /\ local_sessions' = moved
                    /\ NextSession
                    /\ UNCHANGED <<remote_sessions, transferred, err>>
               ELSE \E complete \in BOOLEAN :
                        LET copy == transfer_folder(new_session_path, FALSE, complete)
                        IN  IF copy.raised # ""
                            THEN /\ Raise(copy.raised)
                                 /\ local_sessions' = moved
                                 /\ remote_sessions' = copy.remote
                                 /\ UNCHANGED <<transferred, ind>>
                            ELSE /\ transferred' =
                                        transferred \cup {local_sessions[session_path].id}
                                 /\ IF session_path \in DOMAIN moved
                                    THEN /\ local_sessions' =
                                                [moved EXCEPT ![session_path].flag = FALSE]
                                         /\ remote_sessions' =
                                                RemoveExtractMe(copy.remote,
                                                                new_session_path)
                                         /\ NextSession
                                         /\ UNCHANGED err
                                    ELSE /\ Raise("FileNotFoundError")
                                         /\ local_sessions' = moved
                                         /\ remote_sessions' = copy.remote
                                         /\ UNCHANGED ind
    /\ UNCHANGED <<version, ephys_files, linear, tol, probes, d, tried, sync_nidq,
                   iref, sr, qc_all, fit, timestamps, disk, log, history, vret, ret,
                   applied, sorting, routine, force, src_session_paths>>

\* 's' or 'skip': continue
AnswerSkip ==
    /\ pc = "input"
    /\ NextSession
    /\ UNCHANGED <<version, ephys_files, linear, tol, probes, d, tried, sync_nidq,
                   iref, sr, qc_all, fit, timestamps, disk, log, history, vret, ret,
                   err, applied, sorting, transfer>>

\* 'e' or 'exit': return
AnswerExit ==
    /\ pc = "input"
    /\ pc' = "returned"
    /\ UNCHANGED <<version, ephys_files, linear, tol, probes, d, tried, sync_nidq,
                   iref, sr, qc_all, ind, fit, timestamps, disk, log, history, vret,
                   ret, err, applied, sorting, transfer>>

NextTransfer ==
    \/ ConfirmGlob
    \/ AnswerOther
    \/ AnswerYes
    \/ AnswerRename
    \/ AnswerSkip
    \/ AnswerExit

SpecTransfer == InitTransfer /\ [][NextTransfer]_vars

(***************************************************************************)
(* Properties.                                                             *)
(***************************************************************************)
\* the routine has returned (to sync, or sync to its caller)
Returned == pc \in {"returned", "done"}
\* the probes sync_probe_front_times has returned for
Fitted == {p \in ProbeIds : qcs[p] # NoValue}
\* the probes that are not the reference probe (version3B has none: iref = 0)
NonReference == {p \in ProbeIds : p # iref}
\* the run is in the loop over two or more probes, or past it
MultiProbe == Len(probes) >= 2

C2_SyncReturnsRoutineValue ==
    pc = "done" => (ret = vret /\ ret \in {"True", "False"})

\* the probes whose both files are written
Written == {p \in ProbeIds : file_sync[p] # NoFile /\ file_ts[p] # NoFile}

\* C3: a failed verification neither aborts the run nor keeps a file from being
\* written: the probe that failed is written as soon as the loop has passed it,
\* a run that has returned has written every probe of the loop and returns
\* False after a failure, and a run that raised after a failure raised the
\* assertion of version3B on the edge counts of a later probe.
C3_FailureDoesNotAbort ==
    /\ \A p \in Fitted :
           (qcs[p] = "False" /\ (ind > p \/ Returned)) => p \in Written
    /\ (Returned /\ MultiProbe) =>
           /\ Written = ProbeIds
           /\ (\E p \in Fitted : qcs[p] = "False") => vret = "False"
    /\ (pc = "raised" /\ \E p \in Fitted : qcs[p] = "False") =>
           /\ err = "AssertionError"
           /\ Len(sync_nidq) # Len(probes[ind].sync["imec_sync"])
           /\ \A p \in 1..(ind - 1) : p \in Written

\* C3 witness: a run has returned, the first probe of its loop failed the
\* verification, and that probe and a later one are written.
C3_Witness ==
    /\ pc = "done"
    /\ \E p, q \in Written : p < q /\ qcs[p] = "False" /\ qcs[q] # NoValue

\* the steps a probe may take: the fit, the smoothing only when linear is
\* False, the verification, the save; the reference probe of version3A is
\* saved without a fit
StepAllowed(p, from, to) ==
    \/ from = "UNSYNCED" /\ to = "FIT_LINEAR" /\ p # iref
    \/ from = "FIT_LINEAR" /\ to = "FIT_SMOOTHED" /\ ~linear
    \/ from = "FIT_LINEAR" /\ to = "VERIFIED" /\ linear
    \/ from = "FIT_SMOOTHED" /\ to = "VERIFIED"
    \/ from = "VERIFIED" /\ to = "PERSISTED"
    \/ from = "UNSYNCED" /\ to = "PERSISTED" /\ p = iref /\ version = "3A"

\* C4 as stated: every probe is fitted at most once, persisted only after it
\* has been fitted and verified, and written exactly once in a run over two or
\* more probes.
C4_Original ==
    \A p \in ProbeIds :
        /\ nfit[p] <= 1
        /\ nwrite[p] <= 1
        /\ stage[p] = "PERSISTED" => (nfit[p] = 1 /\ qcs[p] # NoValue)
        /\ (Returned /\ MultiProbe) => nwrite[p] = 1

\* C4 amended, the state part: no probe is fitted or written twice, a probe
\* other than the reference probe of version3A is persisted only after its
\* fit and its verification, the reference probe is never fitted, and a run
\* over two or more probes that has returned has written every probe once.
C4_Counts ==
    \A p \in ProbeIds :
        /\ nfit[p] <= 1
        /\ nwrite[p] <= 1
        /\ (stage[p] = "PERSISTED") <=> (nwrite[p] = 1)
        /\ (stage[p] = "PERSISTED" /\ p # iref) => (nfit[p] = 1 /\ qcs[p] # NoValue)
        /\ (stage[p] \in {"VERIFIED", "PERSISTED"} /\ p # iref) <=> (qcs[p] # NoValue)
        /\ p = iref => (nfit[p] = 0 /\ qcs[p] = NoValue)
        /\ (Returned /\ MultiProbe) => nwrite[p] = 1

\* C4 amended: the counts above hold in every state, and every change of a
\* probe's step is one of UNSYNCED -> FIT_LINEAR -> (FIT_SMOOTHED only when
\* linear is False) -> VERIFIED -> PERSISTED, or UNSYNCED -> PERSISTED for the
\* reference probe of version3A: no step is skipped and none is taken again.
C4_StepOrder ==
    /\ []C4_Counts
    /\ [][\A p \in ProbeIds :
              stage'[p] # stage[p] => StepAllowed(p, stage[p], stage'[p])]_vars

\* C4 witness: a run without the linear flag has returned and a probe of it
\* was fitted, smoothed, verified and written.
C4_Witness ==
    /\ Returned
    /\ ~linear
    /\ \E p \in ProbeIds : stage[p] = "PERSISTED" /\ nfit[p] = 1 /\ qcs[p] = "False"

\* C5: in version3A over two or more probes the reference probe is one probe
\* of the session, it is the only probe that is not fitted, and the
\* control-point table saved for it is [[0, 0], [1, 1]].
C5_ReferenceIdentity ==
    (version = "3A" /\ iref # 0) =>
        /\ MultiProbe
        /\ iref \in ProbeIds
        /\ nwrite[iref] > 0 => file_sync[iref] = <<<<Zero, Zero>>, <<One, One>>>>
        /\ Returned =>
               /\ file_sync[iref] = <<<<Zero, Zero>>, <<One, One>>>>
               /\ {p \in ProbeIds : nfit[p] = 0} = {iref}

\* C5 witness: a version3A run with linear=True and a tolerance of the caller
\* has returned; the identity is saved for the reference probe and another
\* table for a fitted probe.
C5_Witness ==
    /\ version = "3A"
    /\ Returned
    /\ iref # 0
    /\ file_sync[iref] = <<<<Zero, Zero>>, <<One, One>>>>
    /\ linear
    /\ tol # DefaultTol("3A")
    /\ \E p \in Fitted : file_sync[p] # file_sync[iref]

\* C6 as stated: both tables saved for the reference probe are [[0, 0], [1, 1]].
C6_Original ==
    (version = "3A" /\ iref # 0 /\ nwrite[iref] > 0) =>
        /\ file_sync[iref] = <<<<Zero, Zero>>, <<One, One>>>>
        /\ file_ts[iref] = <<<<Zero, Zero>>, <<One, One>>>>

\* C6 amended: the control-point table saved for the reference probe is
\* [[0, 0], [1, 1]] and its timestamps table is [[0, 0], [sr, 1]], sr the
\* sampling rate of the reference probe.
C6_ReferenceTables ==
    (version = "3A" /\ iref # 0 /\ nwrite[iref] > 0) =>
        /\ file_sync[iref] = <<<<Zero, Zero>>, <<One, One>>>>
        /\ file_ts[iref] = <<<<Zero, Zero>>, <<RInt(probes[iref].fs), One>>>>

\* C6 witness: the tables of a reference probe are saved, and its sampling
\* rate is not 1 Hz.
C6_Witness ==
    /\ version = "3A"
    /\ iref # 0
    /\ nwrite[iref] > 0
    /\ probes[iref].fs > 1
    /\ file_ts[iref] # NoFile

Range(s) == {s[i] : i \in 1..Len(s)}
\* the channel the edge times of the fit come from
Chosen == tried[Len(tried)]
\* the number of edges of probe p on the chosen channel, as loaded
ChosenCount(p) ==
    IF Chosen \in DOMAIN probes[p].sync THEN Len(probes[p].sync[Chosen]) ELSE 0
\* frame2ttl is missing from the sync map of probe p, or has no edge on it
NoFrame2ttl(p) ==
    \/ "frame2ttl" \notin DOMAIN probes[p].sync
    \/ probes[p].sync["frame2ttl"] = <<>>
\* the run has gone over to the camera channel
Fallback == pc = "right_camera" \/ "right_camera" \in Range(tried)

\* C8 as stated: the reference probe is the first of the probes with the most
\* edges on the chosen channel.
C8_Original ==
    iref # 0 =>
        /\ \A j \in ProbeIds : ChosenCount(j) <= ChosenCount(iref)
        /\ \A j \in 1..(iref - 1) : ChosenCount(j) < ChosenCount(iref)

\* C8 amended: the reference probe is the first of the probes with the most
\* sync events over all channels of the probe, len(sync.channels).
C8_ReferenceHasMostEvents ==
    iref # 0 =>
        /\ \A j \in ProbeIds : NChannels(probes[j]) <= NChannels(probes[iref])
        /\ \A j \in 1..(iref - 1) : NChannels(probes[j]) < NChannels(probes[iref])

\* C8 witness: the reference probe is chosen, it is not the first probe, and
\* another probe has more edges on the chosen channel than it has.
C8_Witness ==
    /\ iref > 1
    /\ \E j \in ProbeIds : ChosenCount(j) > ChosenCount(iref)

\* C8 witness of the tie: two probes have the most events and the first of
\* them is the reference probe.
C8_TieWitness ==
    /\ iref # 0
    /\ \E j \in (iref + 1)..Len(probes) : NChannels(probes[j]) = NChannels(probes[iref])

\* C9 as stated: frame2ttl is tried first and the run goes over to the camera
\* channel exactly when frame2ttl is absent on a probe or the probes'
\* frame2ttl edge counts differ.
C9_Original ==
    (version = "3A" /\ tried # <<>>) =>
        /\ tried[1] = "frame2ttl"
        /\ Fallback <=>
               \/ \E p \in ProbeIds : NoFrame2ttl(p)
               \/ \E p, q \in ProbeIds :
                      Len(probes[p].sync["frame2ttl"]) # Len(probes[q].sync["frame2ttl"])

\* C9 amended: frame2ttl is tried first; the run goes over to the camera
\* channel, with a warning, exactly when frame2ttl is missing from the sync map
\* of a probe or has no edge on a probe, whether or not the edge counts of the
\* probes match; otherwise the camera channel is never read.
C9_FallbackIffNoFrame2ttl ==
    (version = "3A" /\ tried # <<>>) =>
        /\ tried[1] = "frame2ttl"
        /\ Fallback <=> (\E p \in ProbeIds : NoFrame2ttl(p))
        /\ Fallback <=>
               ("warning: frame2ttl not detected on both probes, using camera sync"
                    \in Range(log))
        /\ ~Fallback => tried = <<"frame2ttl">>
        /\ Len(tried) <= 2

\* C9 witness: a run that went over to the camera channel has returned.
C9_Witness ==
    /\ Returned
    /\ tried = <<"frame2ttl", "right_camera">>
    /\ Written = ProbeIds

\* C9 witness of the other side: a run has returned on frame2ttl edges of
\* which the probes had different counts.
C9_MismatchWitness ==
    /\ Returned
    /\ tried = <<"frame2ttl">>
    /\ \E p, q \in ProbeIds : ChosenCount(p) # ChosenCount(q)

\* the camera edges are loaded on every probe
CameraLoaded == version = "3A" /\ Len(tried) = 2 /\ d.ok
\* the check of the first camera edges has raised
CameraError == err = "ValueError: Cameras started before ephys, no sync possible"

\* C10 as stated: with the camera edges the run raises exactly when the
\* earliest first camera edge is not later than 0 s, and before any write.
C10_Original ==
    CameraLoaded =>
        /\ CameraError <=> ~RGt(RMin(FirstTimes(d.times)), Zero)
        /\ CameraError => Written = {}

\* C10 amended: with the camera edges the run raises exactly when the
\* earliest first camera edge is not later than 0.2 s, and before any write.
C10_CameraStartCheck ==
    CameraLoaded =>
        /\ CameraError <=> (\E p \in ProbeIds : RLe(d.times[p][1], Rat(1, 5)))
        /\ CameraError =>
               /\ pc = "raised"
               /\ \A p \in ProbeIds : file_sync[p] = NoFile /\ file_ts[p] = NoFile

\* C10 witness: the run raised on a first camera edge at 0.1 s.
C10_Witness ==
    /\ CameraLoaded
    /\ CameraError
    /\ RMin(FirstTimes(d.times)) = Rat(1, 10)

\* C10 witness of the other side: the camera edges passed the check and the
\* run has returned.
C10_PassWitness ==
    /\ CameraLoaded
    /\ Returned
    /\ \A p \in ProbeIds : RGt(d.times[p][1], Rat(1, 5))

\* the auxiliary channel is absent from a probe's sync map or has no edge on it
NoChannel(auxiliary_name) ==
    \E p \in ProbeIds :
        \/ auxiliary_name \notin DOMAIN ephys_files[p].sync
        \/ ephys_files[p].sync[auxiliary_name] = <<>>
\* the exceptions version3A and version3B raise by a raise or assert statement
ConfigurationErrors ==
    {"ValueError: Cameras started before ephys, no sync possible", "AssertionError"}

\* C11: a version3A run over two or more probes where frame2ttl and
\* right_camera are each absent or without edges on some probe, once past the
\* second get_sync_fronts, has ended in an error the synchronization code
\* raises for the configuration; no file is written, no reference probe is
\* chosen and nothing is fitted.
C11_ConfigurationErrorBeforeWrites ==
    (/\ version = "3A"
     /\ NoChannel("frame2ttl")
     /\ NoChannel("right_camera")
     /\ Len(tried) = 2) =>
        /\ pc = "raised"
        /\ err \in ConfigurationErrors
        /\ Written = {}
        /\ iref = 0
        /\ \A p \in ProbeIds : nfit[p] = 0 /\ stage[p] = "UNSYNCED"

\* version3B is past its assertion on the number of nidq files
PastNidq == version = "3B" /\ pc \notin {"sync", "version3B", "nidq"}

\* C12 as stated: a version3B run on a session with no nidq file or with more
\* than one ends in an error, whatever the number of probes.
C12_Original ==
    (PastNidq /\ Len(NidqFiles(ephys_files)) # 1) => pc = "raised"

\* C12 amended: a version3B run on two or more probes with no nidq file or
\* with more than one ends in AssertionError before anything is fitted or
\* written; on fewer than two probes it returns True whatever the number of
\* nidq files; with exactly one nidq file the run enters the loop, and an error
\* then comes from the edge counts of a probe.
C12_ExactlyOneNidq ==
    PastNidq =>
        /\ (Len(NidqFiles(ephys_files)) # 1 /\ Len(ProbeFiles(ephys_files)) >= 2) =>
               /\ pc = "raised"
               /\ err = "AssertionError"
               /\ ind = 0
               /\ Written = {}
               /\ Fitted = {}
        /\ Len(ProbeFiles(ephys_files)) <= 1 =>
               /\ Returned
               /\ vret = "True"
               /\ err = ""
        /\ (Len(NidqFiles(ephys_files)) = 1 /\ Len(ProbeFiles(ephys_files)) >= 2) =>
               /\ ind >= 1
               /\ pc = "raised" =>
                      Len(sync_nidq) # Len(probes[ind].sync["imec_sync"])

\* C12 witness: a version3B run on two probes and two nidq files has ended in
\* AssertionError.
C12_Witness ==
    /\ version = "3B"
    /\ Len(ProbeFiles(ephys_files)) = 2
    /\ Len(NidqFiles(ephys_files)) = 2
    /\ pc = "raised"
    /\ err = "AssertionError"

\* C12 witness of the case without a nidq file.
C12_NoNidqWitness ==
    /\ version = "3B"
    /\ Len(ProbeFiles(ephys_files)) = 2
    /\ Len(NidqFiles(ephys_files)) = 0
    /\ pc = "raised"

\* version3B: the edge count of probe p differs from the nidq file's
CountMismatch(p) == Len(probes[p].sync["imec_sync"]) # Len(sync_nidq)
\* version3B has raised in its loop, at probe ind
LoopAbort == version = "3B" /\ pc = "raised" /\ ind >= 1

\* C13, the states: version3B fits a probe on all its edges and all the edges
\* of the nidq file, and only a probe with as many edges as the nidq file; a
\* run that raised in the loop raised AssertionError at a probe whose edge
\* count differs, every probe before it is fitted and has both its files, and
\* that probe and every probe after it are not fitted and have no file.
C13_AbortState ==
    /\ (version = "3B" /\ pc \in {"polyfit", "smooth", "line", "verify"}) =>
           /\ t = probes[ind].sync["imec_sync"]
           /\ tref = sync_nidq
           /\ ~CountMismatch(ind)
    /\ version = "3B" => \A p \in Fitted : ~CountMismatch(p)
    /\ LoopAbort =>
           /\ err = "AssertionError"
           /\ CountMismatch(ind)
           /\ \A p \in 1..(ind - 1) : p \in Written /\ p \in Fitted /\ nwrite[p] = 1
           /\ \A p \in ind..Len(probes) :
                  /\ file_sync[p] = NoFile
                  /\ file_ts[p] = NoFile
                  /\ nfit[p] = 0

\* C13: in version3B a probe whose edge count differs from the nidq file's
\* aborts the run with AssertionError and without truncation; the files of the
\* probes before it are present and the abort leaves them as they were
\* written, and no file is written for that probe or for any probe after it.
C13_MismatchAborts ==
    /\ []C13_AbortState
    /\ [][(version = "3B" /\ pc' = "raised") =>
              (file_sync' = file_sync /\ file_ts' = file_ts)]_vars
    /\ [][(version = "3B" /\ pc = "raised") => UNCHANGED vars]_vars

\* C13 witness: version3B has raised at its second probe, whose edge count
\* differs from the nidq file's, after the first probe was written.
C13_Witness ==
    /\ LoopAbort
    /\ ind = 2
    /\ CountMismatch(2)
    /\ 1 \in Written
    /\ file_sync[2] = NoFile

\* the edge times get_sync_fronts returned for the channel in use, before the chop
Loaded(p) == probes[p].sync[Chosen]
\* the lowest edge count over the probes for the channel in use
MinCount == IMin([p \in 1..Len(probes) |-> Len(Loaded(p))])
\* the probes' edge counts for the channel in use are not all the same
CountsDiffer == \E p, q \in 1..Len(probes) : Len(Loaded(p)) # Len(Loaded(q))
ChopWarning == "warning: Probes don't have the same number of synchronizations pulses"
\* version3A is past the chop
Chopped ==
    /\ version = "3A"
    /\ tried # <<>>
    /\ pc \notin {"frame2ttl", "right_camera", "chop", "raised"}

\* C14: in version3A, once past the chop, the stream of every probe is the
\* first m edges get_sync_fronts returned for it, m the lowest edge count over
\* the probes; the warning is logged exactly when the counts differ, and then
\* at least one edge is dropped, while with equal counts no edge is dropped;
\* nothing is raised past the chop, every fit is on streams of m edges, and
\* the run that returns has written every probe.
C14_ChopToShortest ==
    /\ Chopped =>
           /\ \A p \in 1..Len(probes) :
                  /\ Len(d.times[p]) = MinCount
                  /\ \A i \in 1..MinCount : d.times[p][i] = Loaded(p)[i]
           /\ (ChopWarning \in Range(log)) <=> CountsDiffer
           /\ CountsDiffer <=> (\E p \in 1..Len(probes) : d.times[p] # Loaded(p))
           /\ err = ""
           /\ pc \in {"polyfit", "smooth", "line", "verify"} =>
                  Len(t) = MinCount /\ Len(tref) = MinCount
           /\ Returned => Written = ProbeIds
    /\ (version = "3A" /\ pc = "raised") => iref = 0

\* C14 witness: a version3A run on probes with different edge counts has
\* logged the warning, fitted a probe on the shorter length and returned with
\* every probe written.
C14_Witness ==
    /\ Chopped
    /\ CountsDiffer
    /\ ChopWarning \in Range(log)
    /\ pc = "done"
    /\ Fitted # {}
    /\ Written = ProbeIds
    /\ \E p \in 1..Len(probes) : Len(Loaded(p)) > Len(t)

\* C14 witness of equal counts: a run has returned without the warning.
C14_EqualWitness ==
    /\ Chopped
    /\ ~CountsDiffer
    /\ pc = "done"
    /\ Fitted # {}

\* the error of the interpolation over the control points at pair i, in samples
SampleError(i) ==
    RMul(RAbs(RSub(interp1d(sync_points, t[i]), tref[i])), RInt(sr))

\* C15: when sync_probe_front_times has returned, its qc is True exactly when
\* |interpolate(t[i]) - tref[i]| * sr <= tol for every pair given to the fit,
\* interpolate the piecewise-linear interpolant with extrapolation over the
\* control points returned; the control points are returned whatever qc is:
\* they are the table the loop receives and saves.
C15_QcIffWithinTol ==
    /\ pc = "qc_all" =>
           /\ qc <=> (\A i \in 1..Len(t) : RLe(SampleError(i), tol))
           /\ qcs[ind] = PyBool(qc)
           /\ Len(t) = Len(tref)
           /\ Len(sync_points) >= 2
    /\ (pc = "save" /\ ind \in Fitted) =>
           /\ timestamps = sync_points
           /\ qcs[ind] = PyBool(qc)
    /\ \A p \in Fitted : p \in Written => Len(file_sync[p]) >= 2
    /\ (pc = "loop" /\ ind >= 2 /\ (ind - 1) \in Fitted) =>
           file_sync[ind - 1] = sync_points

\* C15 witness: sync_probe_front_times has returned qc = False together with
\* its control points, for pairs of which one is within the tolerance and one
\* is not.
C15_Witness ==
    /\ pc = "save"
    /\ ind \in Fitted
    /\ ~qc
    /\ timestamps = sync_points
    /\ \E i, j \in 1..Len(t) : RLe(SampleError(i), tol) /\ RGt(SampleError(j), tol)

\* C15 witness of qc = True on a fit that is not exact.
C15_PassWitness ==
    /\ pc = "save"
    /\ ind \in Fitted
    /\ qc
    /\ \E i \in 1..Len(t) : RGt(SampleError(i), Zero)

\* the run is inside sync_probe_front_times for probe ind, or has just left it
InFit == pc \in {"polyfit", "smooth", "line", "verify", "qc_all"}
\* the sampling rate of the reference: the reference probe of version3A, the
\* nidq file of version3B
ReferenceRate ==
    IF version = "3A" THEN probes[iref].fs ELSE NidqFiles(ephys_files)[1].fs

\* C16 as stated: in version3A and in version3B the sampling rate passed to
\* sync_probe_front_times for a probe is the sampling rate of the reference.
C16_Original == InFit => sr = ReferenceRate

\* C16 amended: the sampling rate passed to sync_probe_front_times for probe
\* ind, with which the verification turns the error into samples, is the
\* reference probe's in version3A and the probe's own in version3B.
C16_RatePassedToFit ==
    /\ InFit =>
           /\ version = "3A" => sr = probes[iref].fs
           /\ version = "3B" => sr = probes[ind].fs
    /\ pc = "qc_all" =>
           qc <=> \A i \in 1..Len(t) :
                      RLe(RMul(RAbs(RSub(interp1d(sync_points, t[i]), tref[i])),
                               RInt(IF version = "3A" THEN probes[iref].fs
                                    ELSE probes[ind].fs)),
                          tol)

\* C16 witness: version3B verifies a probe whose sampling rate is not the
\* nidq file's.
C16_Witness ==
    /\ version = "3B"
    /\ pc = "qc_all"
    /\ probes[ind].fs # NidqFiles(ephys_files)[1].fs
    /\ sr = probes[ind].fs

\* C16 witness of version3A: a probe is verified with the sampling rate of
\* the reference probe, which is not its own.
C16_ReferenceWitness ==
    /\ version = "3A"
    /\ pc = "qc_all"
    /\ probes[ind].fs # probes[iref].fs
    /\ sr = probes[iref].fs

\* C17: for every probe whose files are written, the timestamps table has the
\* rows of the probe's control-point table with the first column multiplied
\* by the probe's own sampling rate and the second column unchanged; the
\* save leaves the table it was handed as it was.
C17_TimestampsInOwnSamples ==
    /\ \A p \in Written :
           /\ Len(file_ts[p]) = Len(file_sync[p])
           /\ \A k \in 1..Len(file_sync[p]) :
                  /\ file_ts[p][k][1] = RMul(file_sync[p][k][1], RInt(probes[p].fs))
                  /\ file_ts[p][k][2] = file_sync[p][k][2]
    /\ (pc = "loop" /\ ind >= 2) => file_sync[ind - 1] = timestamps

\* the control points of the table are strictly increasing in both columns
Increasing(table) ==
    \A k \in 1..(Len(table) - 1) :
        RLt(table[k][1], table[k + 1][1]) /\ RLt(table[k][2], table[k + 1][2])

PointsBuilt == pc \in {"verify", "qc_all"}

\* C19: the control-point table sync_probe_front_times returns has two rows
\* or more; with linear=True it is the two rows (0, intercept) and
\* (1, slope + intercept) of the fitted line; with linear=False its local
\* times are 0, 20, 40, ... and the last of them is at or beyond the largest
\* reference time.
C19_ControlPointTable ==
    PointsBuilt =>
        /\ Len(sync_points) >= 2
        /\ linear =>
               sync_points = <<<<Zero, pol[2]>>, <<One, RAdd(pol[1], pol[2])>>>>
        /\ ~linear =>
               /\ \A k \in 1..Len(sync_points) :
                      sync_points[k][1] = RInt(20 * (k - 1))
               /\ \A i \in 1..Len(tref) :
                      RLe(tref[i], sync_points[Len(sync_points)][1])

\* C19 witness: a fit with linear=False has returned a grid of three points
\* or more, the reference times going beyond the second.
C19_Witness ==
    /\ pc = "qc_all"
    /\ ~linear
    /\ Len(sync_points) >= 3
    /\ \E i \in 1..Len(tref) : RGt(tref[i], RInt(20))

\* C19 witness of linear=True: the two points of a line that is not the
\* identity.
C19_LinearWitness ==
    /\ pc = "qc_all"
    /\ linear
    /\ Len(sync_points) = 2
    /\ pol # <<One, Zero>>

\* the control-point tables sync_probe_front_times may return for the streams
\* own and ref: one per output of the low-pass filter, or the one of the line
PointsOf(own, ref) ==
    IF linear
    THEN {LinearPoints(polyfit(own, ref))}
    ELSE {SmoothedPoints(polyfit(own, ref), OutputGrid(ref),
                         [k \in 1..Len(OutputGrid(ref)) |-> Smoothed(curve, k)]) :
              curve \in SmoothedCurves}
\* the qc of the verification of points on the streams own and ref
QcOf(points, own, ref, rate) == PyBool(~ExceedsTol(points, own, ref, rate, tol))
\* the edge stream the session holds for probe p, and for the reference
OwnStream(p) ==
    IF version = "3A" THEN Loaded(p) ELSE probes[p].sync["imec_sync"]
RefStream ==
    IF version = "3A" THEN Loaded(iref) ELSE NidqFiles(ephys_files)[1].sync["imec_sync"]
\* stream[:n]
FirstN(stream, n) == SubSeq(stream, 1, n)
\* the lower of two counts
Lower(a, b) == IF a < b THEN a ELSE b
\* the sampling rate the loop passes for probe p
RateFor(p) == IF version = "3A" THEN probes[iref].fs ELSE probes[p].fs
\* a run over two or more probes that got to its loop has ended
LoopEnded ==
    /\ pc \in {"done", "raised"}
    /\ MultiProbe
    /\ IF version = "3A" THEN iref # 0 ELSE ind >= 1

UsedOwn(p) == IF version = "3A" THEN FirstN(OwnStream(p), MinCount) ELSE OwnStream(p)
UsedRef == IF version = "3A" THEN FirstN(RefStream, MinCount) ELSE RefStream

\* the loop has just saved the tables of the fitted probe ind - 1
JustSaved == pc = "loop" /\ ind >= 2 /\ (ind - 1) \in Fitted

C20_AbortWitness ==
    /\ version = "3B"
    /\ LoopEnded
    /\ Len(probes) = 2
    /\ Len(OwnStream(2)) = Len(RefStream)
    /\ Len(OwnStream(1)) # Len(RefStream)
    /\ 2 \notin Written

(***************************************************************************)
(* C21: the outcomes of sync_spike_sortings.                               *)
(***************************************************************************)
\* the forward (probe to session time) mapping of probe p's spike times by the
\* table of its own sync file
ForwardMapped(p) ==
    [j \in 1..Len(probes[p].spikes) |->
        interp1d(SortByX(probes[p].sync_npy), probes[p].spikes[j])]
\* the error logged for probe p
NoSyncError(p) == <<"error: No synchronisation file for", probes[p].label>>
Logged(p) == \E i \in 1..Len(log) : log[i] = NoSyncError(p)
\* probe p had a sync file and its spikes.times.npy was rewritten once, mapped
SortedInSessionTime(p) ==
    /\ probes[p].sync_npy # NoFile
    /\ npatch[p] = 1
    /\ DOMAIN alf[p] = {SpikesTimes}
    /\ alf[p][SpikesTimes] = ForwardMapped(p)
    /\ ~Logged(p)
\* probe p had no sync file: error logged, file renamed and left in probe time
SortedInProbeTime(p) ==
    /\ probes[p].sync_npy = NoFile
    /\ npatch[p] = 0
    /\ DOMAIN alf[p] = {Renamed(probes[p].label)}
    /\ alf[p][Renamed(probes[p].label)] = probes[p].spikes
    /\ Logged(p)
\* the loop of sync_spike_sortings is over
SortingDone == pc = "returned"

\* C21: when sync_spike_sortings returns on a session with several probes,
\* every probe either had a sync file and its spikes.times.npy was rewritten
\* exactly once with the forward mapping of its own sync table, or had none,
\* an error was logged for it and its file was renamed spikes.times_<label>.npy
\* with the times of the probe unchanged, whatever happened to the probes
\* before it; on a session with one probe the file is as ks2_to_alf wrote it,
\* nothing is mapped, renamed or logged.  No file is patched twice.
C21_EachProbeOneOutcome ==
    /\ \A p \in DOMAIN npatch : npatch[p] <= 1
    /\ SortingDone =>
           IF Len(probes) = 1
           THEN /\ npatch[1] = 0
                /\ DOMAIN alf[1] = {SpikesTimes}
                /\ alf[1][SpikesTimes] = probes[1].spikes
                /\ log = <<>>
           ELSE \A p \in 1..Len(probes) :
                    \/ SortedInSessionTime(p) /\ ~SortedInProbeTime(p)
                    \/ SortedInProbeTime(p) /\ ~SortedInSessionTime(p)

\* a session of several probes where the first probe had no sync file and a
\* later one was mapped to other times
C21_Witness ==
    /\ SortingDone
    /\ Len(probes) >= 2
    /\ SortedInProbeTime(1)
    /\ \E p \in 2..Len(probes) :
           /\ SortedInSessionTime(p)
           /\ alf[p][SpikesTimes] # probes[p].spikes

\* a session of one probe, with a sync file, whose times were left alone
C21_SingleWitness ==
    /\ SortingDone
    /\ Len(probes) = 1
    /\ probes[1].sync_npy \notin {NoFile, Identity}
    /\ probes[1].spikes # <<>>
    /\ alf[1] = SpikesTimes :> probes[1].spikes

(***************************************************************************)
(* C22: the transfer_me.flag of the sessions offered for transfer.         *)
(***************************************************************************)
\* the exceptions of a transfer that failed: copytree's and check_transfer's
TransferFailures == {"FileExistsError", "AssertionError"}

\* C22: for every session found with a transfer_me.flag, the flag is gone only
\* if transfer_folder copied the session's data and check_transfer passed (it
\* stays on skip, on exit and on a failed transfer); once the transfer of a
\* session is complete, by 'yes' or by 'rename', its folder, under the name it
\* has now, holds no transfer_me.flag; and only a failed transfer ends the
\* loop by an exception: after a completed one it goes on to the next session.
C22_FlagRemovedByTransfer ==
    /\ \A n \in DOMAIN local_sessions :
           /\ ~local_sessions[n].flag => local_sessions[n].id \in transferred
           /\ local_sessions[n].id \in transferred => ~local_sessions[n].flag
    /\ pc = "raised" => err \in TransferFailures
====
